---- MODULE Spec2Model ----
(***************************************************************************)
(* Model of the OpenTelemetry instrumentation wrappers for the Anthropic   *)
(* client (_wrap, _awrap, AnthropicInstrumentor) and of the langchain chat *)
(* wrappers (chat_wrapper, achat_wrapper).                                 *)
(*                                                                         *)
(* One instrumented call at a time runs through the wrapper statement by   *)
(* statement (pc); the tracer, the meter and the wrapped client method are *)
(* the environment: the request, the ambient flags, the span handed out,   *)
(* the wrapped method's outcome and the token counting behaviour of the    *)
(* client are chosen from small sets where the wrapper first meets them.   *)
(***************************************************************************)
EXTENDS Integers, Sequences, FiniteSets, TLC

VARIABLES
    methods,          \* what each target attribute holds: "original" | "_wrap" | "_awrap"
    instrState,       \* "fresh" | "instrumented" | "uninstrumented" | "uninstrument_raised"
    callsMade,        \* number of instrumented calls started so far
    created,          \* number of instruments created on the meter so far
    pc,               \* position of the running call inside its wrapper
    fn,               \* wrapper running: "_wrap" | "_awrap" | "chat_wrapper" | "achat_wrapper"
    available,        \* the modules of the instrumented library that can be imported
    recording,        \* span.is_recording() of the span the tracer hands out
    suppress,         \* context_api.get_value(_SUPPRESS_INSTRUMENTATION_KEY)
    metricsEnabled,   \* is_metrics_enabled()
    sendPrompts,      \* should_send_prompts()
    kwargs,           \* the request descriptor of the call
    instance,         \* the object the method was called on
    _client,          \* instance._client: how its count_tokens behaves
    outcome,          \* what the wrapped method does when it is run
    response,         \* local variable `response` / `return_value`
    exception,        \* local variable `exception`
    metric_attributes,\* local variable `metric_attributes`
    instruments,      \* the call's (token, choice, duration, exception) instruments exist
    invoked,          \* sequence of argument records the wrapped method was called with
    awaited,          \* number of times the wrapped call's awaitable was awaited
    span,             \* the call's span
    points,           \* metric data points recorded by the call, in order
    log,              \* telemetry operations of the call, in order
    stream,           \* state of the streaming response adapter
    result            \* what the caller of the instrumented method received

vars == <<methods, instrState, available, callsMade, created, pc, fn, recording, suppress,
          metricsEnabled, sendPrompts, kwargs, instance, _client, outcome, response,
          exception, metric_attributes, instruments, invoked, awaited, span,
          points, log, stream, result>>

---------------------------------------------------------------------------
(* Bounds of the model *)

MaxCalls == 2
MaxStreamLen == 2

---------------------------------------------------------------------------
(* Python values: None, int, str, all with the same record shape *)

PyNone == [kind |-> "none", n |-> 0, s |-> ""]
PyInt(i) == [kind |-> "int", n |-> i, s |-> ""]
PyStr(t) == [kind |-> "str", n |-> 0, s |-> t]

\* bool(v) is False
Falsy(v) ==
    \/ v.kind = "none"
    \/ (v.kind = "int" /\ v.n = 0)
    \/ (v.kind = "str" /\ v.s = "")

\* result of a computation that may raise
Ok(v) == [raised |-> FALSE, val |-> v]
Raised == [raised |-> TRUE, val |-> PyNone]

---------------------------------------------------------------------------
(* The instrumentation tables *)

\* WRAPPED_METHODS: the synchronous targets, in table order
WRAPPED_METHODS == <<
    [package |-> "anthropic.resources.completions", object |-> "Completions",
     method |-> "create", span_name |-> "anthropic.completion"],
    [package |-> "anthropic.resources.messages", object |-> "Messages",
     method |-> "create", span_name |-> "anthropic.completion"],
    [package |-> "anthropic.resources.messages", object |-> "Messages",
     method |-> "stream", span_name |-> "anthropic.completion"] >>

\* WRAPPED_AMETHODS: the asynchronous targets, in table order
WRAPPED_AMETHODS == <<
    [package |-> "anthropic.resources.completions", object |-> "AsyncCompletions",
     method |-> "create", span_name |-> "anthropic.completion"],
    [package |-> "anthropic.resources.messages", object |-> "AsyncMessages",
     method |-> "create", span_name |-> "anthropic.completion"],
    [package |-> "anthropic.resources.messages", object |-> "AsyncMessages",
     method |-> "stream", span_name |-> "anthropic.completion"] >>

\* a patchable attribute: the class `object` of module `package`, attribute `method`
Attr(package, object, method) ==
    [package |-> package, object |-> object, method |-> method]

AttrOf(w) == Attr(w.package, w.object, w.method)

\* the attributes that exist in the instrumented library: each class lives in
\* the module its table entry names
Targets ==
    {AttrOf(WRAPPED_METHODS[i]) : i \in 1..Len(WRAPPED_METHODS)}
        \cup {AttrOf(WRAPPED_AMETHODS[i]) : i \in 1..Len(WRAPPED_AMETHODS)}

---------------------------------------------------------------------------
(* Requests *)

PyFloat(t) == [kind |-> "float", n |-> 0, s |-> t]

\* one part of a multi-part message content
TextPart(t) ==
    [type |-> "text", text |-> t, hasSource |-> FALSE, source_type |-> "",
     media_type |-> "", data |-> "", dataIsBytes |-> FALSE]
ImagePart(st, mt, d, isBytes) ==
    [type |-> "image", text |-> "", hasSource |-> TRUE, source_type |-> st,
     media_type |-> mt, data |-> d, dataIsBytes |-> isBytes]

\* message content: a string, a list of parts, or a value that is neither
StrContent(t) == [kind |-> "str", s |-> t, parts |-> << >>]
PartsContent(ps) == [kind |-> "parts", s |-> "", parts |-> ps]
BadContent == [kind |-> "bad", s |-> "", parts |-> << >>]

NoMessages == [kind |-> "none", items |-> << >>]
MessageList(ms) == [kind |-> "list", items |-> ms]

EmptyRequest ==
    [model |-> PyNone, max_tokens_to_sample |-> PyNone, temperature |-> PyNone,
     top_p |-> PyNone, frequency_penalty |-> PyNone, presence_penalty |-> PyNone,
     stream |-> PyNone, prompt |-> PyNone, messages |-> NoMessages]

CompletionRequest ==
    [EmptyRequest EXCEPT !.model = PyStr("claude-instant-1.2"),
                         !.prompt = PyStr("Hello world"),
                         !.max_tokens_to_sample = PyInt(2048),
                         !.top_p = PyFloat("0.1")]

MessagesRequest ==
    [EmptyRequest EXCEPT !.model = PyStr("claude-3-opus"),
                         !.messages = MessageList(<<
                             [content |-> StrContent("Tell me a joke")],
                             [content |-> PartsContent(<<
                                 TextPart("What is this"),
                                 ImagePart("base64", "image/jpeg", "QUJD", FALSE)>>)] >>)]

\* well-formed-but-unexpected: the second message's content cannot be dumped
MalformedRequest ==
    [EmptyRequest EXCEPT !.model = PyStr("claude-3-opus"),
                         !.stream = PyInt(1),
                         !.messages = MessageList(<<
                             [content |-> StrContent("Tell me a joke")],
                             [content |-> BadContent] >>)]

\* an image whose data is a bytes object, in front of a text part
BytesImageRequest ==
    [EmptyRequest EXCEPT !.model = PyStr("claude-3-opus"),
                         !.messages = MessageList(<<
                             [content |-> PartsContent(<<
                                 ImagePart("base64", "image/png", "iVBO", TRUE),
                                 TextPart("Describe")>>)] >>)]

Requests ==
    {EmptyRequest, CompletionRequest, MessagesRequest, MalformedRequest,
     BytesImageRequest}

---------------------------------------------------------------------------
(* Responses and outcomes of the wrapped method *)

NoUsage == [kind |-> "none", input_tokens |-> 0, output_tokens |-> 0]
Usage(i, o) == [kind |-> "usage", input_tokens |-> i, output_tokens |-> o]
\* a truthy usage value without input_tokens / output_tokens attributes
BadUsage == [kind |-> "bad", input_tokens |-> 0, output_tokens |-> 0]

NoContent == [kind |-> "none", items |-> << >>]
\* a list of ContentBlock objects, each with a .text
ContentList(ts) == [kind |-> "list", items |-> ts]
\* a list whose items have no .text attribute
BadContentList(ts) == [kind |-> "bad", items |-> ts]

\* a response value; id tells two values apart
Response(id, kind) ==
    [id |-> id, kind |-> kind, model |-> PyNone, completion |-> PyNone,
     content |-> NoContent, stop_reason |-> PyNone, usage |-> NoUsage]

\* the wrapped method returned None
NoneResponse == Response("none", "none")

CompletionResponse ==
    [Response("completion", "object") EXCEPT
        !.model = PyStr("claude-instant-1.2"),
        !.completion = PyStr("Hi there"),
        !.stop_reason = PyStr("stop_sequence")]

MessageResponse ==
    [Response("message", "object") EXCEPT
        !.model = PyStr("claude-3-opus"),
        !.content = ContentList(<<"Why did", "the span">>),
        !.stop_reason = PyStr("end_turn"),
        !.usage = Usage(8, 5)]

DictResponse ==
    [Response("dict", "dict") EXCEPT
        !.model = PyStr("claude-3-opus"),
        !.content = ContentList(<<"joke">>)]

BadUsageResponse ==
    [Response("bad_usage", "dict") EXCEPT
        !.model = PyStr("claude-3-opus"),
        !.completion = PyStr("Hi there"),
        !.usage = BadUsage]

BadContentResponse ==
    [Response("bad_content", "object") EXCEPT
        !.content = BadContentList(<<"joke">>),
        !.usage = Usage(8, 5)]

\* a Stream / AsyncStream: its events are produced while it is consumed
StreamResponse == Response("stream", "stream")

\* the text delta of one stream event ("" for an event that carries no text)
Deltas == {"", "a", "b"}

Responses ==
    {NoneResponse, CompletionResponse, MessageResponse, DictResponse,
     BadUsageResponse, BadContentResponse, StreamResponse}

\* exceptions the wrapped method raises; id tells two exception objects apart
Exceptions ==
    {[cls |-> "RateLimitError", id |-> "e1"], [cls |-> "APIConnectionError", id |-> "e2"]}
NoException == [cls |-> "", id |-> ""]

Returns(r) == [raises |-> FALSE, exc |-> NoException, resp |-> r]
Raises(e) == [raises |-> TRUE, exc |-> e, resp |-> NoneResponse]
Outcomes == {Returns(r) : r \in Responses} \cup {Raises(e) : e \in Exceptions}

\* is_streaming_response
is_streaming_response(resp) == resp.kind = "stream"

\* truth value of a response object
Truthy(resp) == resp.kind # "none"

---------------------------------------------------------------------------
(* Span attributes *)

LLM_VENDOR == "llm.vendor"
LLM_REQUEST_TYPE == "llm.request.type"
LLM_REQUEST_MODEL == "llm.request.model"
LLM_REQUEST_MAX_TOKENS == "llm.request.max_tokens"
LLM_TEMPERATURE == "llm.temperature"
LLM_TOP_P == "llm.top_p"
LLM_FREQUENCY_PENALTY == "llm.frequency_penalty"
LLM_PRESENCE_PENALTY == "llm.presence_penalty"
LLM_IS_STREAMING == "llm.is_streaming"
LLM_RESPONSE_MODEL == "llm.response.model"
LLM_USAGE_PROMPT_TOKENS == "llm.usage.prompt_tokens"
LLM_USAGE_COMPLETION_TOKENS == "llm.usage.completion_tokens"
LLM_USAGE_TOTAL_TOKENS == "llm.usage.total_tokens"
LLM_FINISH_REASON == "llm.completions.0.finish_reason"
PromptKey(i) == "llm.prompts." \o ToString(i) \o ".user"
CompletionKey(i) == "llm.completions." \o ToString(i) \o ".content"

\* an attribute mapping with no key
NoAttrs == [k \in {} |-> PyNone]

\* span.set_attribute(name, value) on the attribute mapping
set_attribute(attrs, name, value) == (name :> value) @@ attrs

\* utils.set_span_attribute: absent or falsy values are never written
set_span_attribute(attrs, name, value) ==
    IF Falsy(value) THEN attrs ELSE set_attribute(attrs, name, value)

\* result of an extractor: the attributes written before it returned or raised
Extracted(attrs, raised) == [attrs |-> attrs, raised |-> raised]

---------------------------------------------------------------------------
(* _dump_content *)

Quote(t) == "\"" \o t \o "\""

\* faulty variant of DumpPart: the image data is dumped as it is, without str()
DumpPart_RawData(part) ==
    IF part.type = "text"
    THEN "{\"type\": \"text\", \"text\": " \o Quote(part.text) \o "}"
    ELSE IF part.type = "image"
    THEN "{\"type\": \"image\", \"source\": {\"type\": " \o Quote(part.source_type)
            \o ", \"media_type\": " \o Quote(part.media_type)
            \o ", \"data\": " \o Quote(part.data) \o "}}"
    ELSE ""

\* the JSON object _dump_content builds for one part ("" for a part it skips)
DumpPart(part) ==
    IF part.type = "text"
    THEN "{\"type\": \"text\", \"text\": " \o Quote(part.text) \o "}"
    ELSE IF part.type = "image"
    THEN "{\"type\": \"image\", \"source\": {\"type\": " \o Quote(part.source_type)
            \o ", \"media_type\": " \o Quote(part.media_type)
            \o ", \"data\": "
            \o Quote(IF part.dataIsBytes THEN "b'" \o part.data \o "'" ELSE part.data)
            \o "}}"
    ELSE ""

\* json.dumps of the list of dumped parts, in order
RECURSIVE JoinParts(_, _)
JoinParts(parts, first) ==
    IF parts = << >> THEN ""
    ELSE LET d == DumpPart(Head(parts)) IN
         IF d = "" THEN JoinParts(Tail(parts), first)
         ELSE (IF first THEN "" ELSE ", ") \o d \o JoinParts(Tail(parts), FALSE)

\* an image part without a source: item.get("source").get(...) raises
PartRaises(part) == part.type = "image" /\ ~part.hasSource

_dump_content(content) ==
    IF content.kind = "str" THEN Ok(PyStr(content.s))
    ELSE IF content.kind = "bad" THEN Raised
    ELSE IF \E i \in 1..Len(content.parts) : PartRaises(content.parts[i]) THEN Raised
    ELSE Ok(PyStr("[" \o JoinParts(content.parts, TRUE) \o "]"))

---------------------------------------------------------------------------
(* _set_input_attributes *)

\* the loop over kwargs["messages"], from message i on
RECURSIVE SetPromptMessages(_, _, _)
SetPromptMessages(attrs, msgs, i) ==
    IF i > Len(msgs) THEN Extracted(attrs, FALSE)
    ELSE LET d == _dump_content(msgs[i].content) IN
         IF d.raised THEN Extracted(attrs, TRUE)
         ELSE SetPromptMessages(set_span_attribute(attrs, PromptKey(i - 1), d.val),
                                msgs, i + 1)

_set_input_attributes(attrs, kw, send) ==
    LET a1 == set_span_attribute(attrs, LLM_REQUEST_MODEL, kw.model)
        a2 == set_span_attribute(a1, LLM_REQUEST_MAX_TOKENS, kw.max_tokens_to_sample)
        a3 == set_span_attribute(a2, LLM_TEMPERATURE, kw.temperature)
        a4 == set_span_attribute(a3, LLM_TOP_P, kw.top_p)
        a5 == set_span_attribute(a4, LLM_FREQUENCY_PENALTY, kw.frequency_penalty)
        a6 == set_span_attribute(a5, LLM_PRESENCE_PENALTY, kw.presence_penalty)
        a7 == set_span_attribute(a6, LLM_IS_STREAMING, kw.stream)
    IN  IF ~send THEN Extracted(a7, FALSE)
        ELSE IF kw.prompt.kind # "none"
        THEN Extracted(set_span_attribute(a7, PromptKey(0), kw.prompt), FALSE)
        ELSE IF kw.messages.kind = "list"
        THEN SetPromptMessages(a7, kw.messages.items, 1)
        ELSE IF kw.messages.kind = "bad" THEN Extracted(a7, TRUE)
        ELSE Extracted(a7, FALSE)

---------------------------------------------------------------------------
(* _set_span_completions and _set_response_attributes *)

RECURSIVE SetCompletionItems(_, _, _)
SetCompletionItems(attrs, items, i) ==
    IF i > Len(items) THEN attrs
    ELSE SetCompletionItems(
            set_span_attribute(attrs, CompletionKey(i - 1), PyStr(items[i])),
            items, i + 1)

_set_span_completions(attrs, resp) ==
    LET a1 == set_span_attribute(attrs, LLM_FINISH_REASON, resp.stop_reason)
    IN  IF ~Falsy(resp.completion)
        THEN Extracted(set_span_attribute(a1, CompletionKey(0), resp.completion), FALSE)
        ELSE IF resp.content.kind = "list"
        THEN Extracted(SetCompletionItems(a1, resp.content.items, 1), FALSE)
        ELSE IF resp.content.kind = "bad" /\ resp.content.items # << >>
        THEN Extracted(a1, TRUE)
        ELSE Extracted(a1, FALSE)

\* faulty variant of _set_response_attributes: the completions are set without
\* asking should_send_prompts()
_set_response_attributes_Always(attrs, resp, send) ==
    LET a1 == set_span_attribute(attrs, LLM_RESPONSE_MODEL, resp.model)
        a2 == IF resp.usage.kind = "usage"
              THEN set_span_attribute(
                     set_span_attribute(
                       set_span_attribute(a1, LLM_USAGE_PROMPT_TOKENS,
                                          PyInt(resp.usage.input_tokens)),
                       LLM_USAGE_COMPLETION_TOKENS, PyInt(resp.usage.output_tokens)),
                     LLM_USAGE_TOTAL_TOKENS,
                     PyInt(resp.usage.input_tokens + resp.usage.output_tokens))
              ELSE a1
    IN  IF resp.usage.kind = "bad" THEN Extracted(a1, TRUE)
        ELSE _set_span_completions(a2, resp)

_set_response_attributes(attrs, resp, send) ==
    LET a1 == set_span_attribute(attrs, LLM_RESPONSE_MODEL, resp.model)
        a2 == IF resp.usage.kind = "usage"
              THEN set_span_attribute(
                     set_span_attribute(
                       set_span_attribute(a1, LLM_USAGE_PROMPT_TOKENS,
                                          PyInt(resp.usage.input_tokens)),
                       LLM_USAGE_COMPLETION_TOKENS, PyInt(resp.usage.output_tokens)),
                     LLM_USAGE_TOTAL_TOKENS,
                     PyInt(resp.usage.input_tokens + resp.usage.output_tokens))
              ELSE a1
    IN  IF resp.usage.kind = "bad" THEN Extracted(a1, TRUE)
        ELSE IF send THEN _set_span_completions(a2, resp)
        ELSE Extracted(a2, FALSE)

---------------------------------------------------------------------------
(* Metrics *)

\* one recorded data point of a metric instrument
Point(inst, value, attributes) ==
    [inst |-> inst, value |-> value, attributes |-> attributes]

\* the four instruments _create_metrics asks the meter for
_create_metrics ==
    <<"llm.anthropic.completion.tokens", "llm.anthropic.completion.choices",
      "llm.anthropic.completion.duration", "llm.anthropic.completion.exceptions">>

TOKENS == _create_metrics[1]
CHOICES == _create_metrics[2]
DURATION == _create_metrics[3]
EXCEPTIONS == _create_metrics[4]

\* faulty variant of _get_shared_metric_attributes: error.type from the exception's
\* text, not from its class name
_get_shared_metric_attributes_Text(resp, exc) ==
    IF Truthy(resp) THEN set_attribute(NoAttrs, "llm.response.model", resp.model)
    ELSE IF exc # NoException THEN set_attribute(NoAttrs, "error.type", PyStr(exc.id))
    ELSE NoAttrs

_get_shared_metric_attributes(resp, exc) ==
    IF Truthy(resp) THEN set_attribute(NoAttrs, "llm.response.model", resp.model)
    ELSE IF exc # NoException THEN set_attribute(NoAttrs, "error.type", PyStr(exc.cls))
    ELSE NoAttrs

\* the value time.time() differences are recorded as
Elapsed == PyFloat("end_time - start_time")

---------------------------------------------------------------------------
(* Token counting *)

\* the client's count_tokens: an int, an int below zero, a value that is no
\* int, or an exception
NoClient == [count |-> "unused", n |-> 0]
Clients ==
    {[count |-> "int", n |-> 3], [count |-> "int", n |-> 0],
     [count |-> "negative", n |-> 0 - 1], [count |-> "nonint", n |-> 0],
     [count |-> "raises", n |-> 0]}

count_tokens(client, text) ==
    IF client.count = "raises" THEN Raised
    ELSE IF client.count = "nonint" THEN Ok(PyStr("error"))
    ELSE Ok(PyInt(client.n))

\* Python's a + b on ints and strs
PyAdd(a, b) ==
    IF a.kind = "int" /\ b.kind = "int" THEN Ok(PyInt(a.n + b.n))
    ELSE IF a.kind = "str" /\ b.kind = "str" THEN Ok(PyStr(a.s \o b.s))
    ELSE Raised

\* sum([count_tokens(m.get("content")) for m in messages])
RECURSIVE CountMessages(_, _, _)
CountMessages(client, msgs, i) ==
    IF i > Len(msgs) THEN Ok(PyInt(0))
    ELSE LET c == count_tokens(client, msgs[i].content)
             rest == CountMessages(client, msgs, i + 1)
         IN  IF c.raised \/ rest.raised \/ c.val.kind # "int" THEN Raised
             ELSE Ok(PyInt(c.val.n + rest.val.n))

\* prompt_tokens of _set_token_usage / _set_token_usage_a
PromptTokens(client, request) ==
    IF ~Falsy(request.prompt) THEN count_tokens(client, request.prompt)
    ELSE IF request.messages.kind = "bad" THEN Raised
    ELSE IF request.messages.kind = "list" /\ request.messages.items # << >>
    THEN CountMessages(client, request.messages.items, 1)
    ELSE Ok(PyInt(0))

\* completion_tokens of _set_token_usage / _set_token_usage_a
CompletionTokens(client, resp) ==
    IF ~Falsy(resp.completion) THEN count_tokens(client, resp.completion)
    ELSE IF resp.content.kind = "bad" /\ resp.content.items # << >> THEN Raised
    ELSE IF resp.content.kind = "list" /\ resp.content.items # << >>
    THEN count_tokens(client, PyStr(resp.content.items[1]))
    ELSE Ok(PyInt(0))

\* faulty variant of IsCount: the sign of the count is not tested
IsCount_AnyInt(v) == v.kind = "int"

\* type(v) is int and v >= 0
IsCount(v) == v.kind = "int" /\ v.n >= 0

\* faulty variant of Choices: a list-valued content counts as one choice
Choices_One(resp) ==
    IF resp.content.kind \in {"list", "bad"} THEN 1
    ELSE IF ~Falsy(resp.completion) THEN 1
    ELSE 0

\* choices of _set_token_usage
Choices(resp) ==
    IF resp.content.kind \in {"list", "bad"} THEN Len(resp.content.items)
    ELSE IF ~Falsy(resp.completion) THEN 1
    ELSE 0

\* the three usage attributes set at the end of _set_token_usage(_a)
SetUsage(attrs, prompt_tokens, completion_tokens, total_tokens) ==
    set_span_attribute(
        set_span_attribute(
            set_span_attribute(attrs, LLM_USAGE_PROMPT_TOKENS, prompt_tokens),
            LLM_USAGE_COMPLETION_TOKENS, completion_tokens),
        LLM_USAGE_TOTAL_TOKENS, total_tokens)

\* result of _set_token_usage: attributes, data points recorded, raised or not
Counted(attrs, pts, raised) == [attrs |-> attrs, points |-> pts, raised |-> raised]

_set_token_usage(attrs, client, request, resp, shared, token_counter, choice_counter) ==
    LET p == PromptTokens(client, request)
        pts1 == IF ~p.raised /\ token_counter /\ IsCount(p.val)
                THEN <<Point(TOKENS, p.val,
                             set_attribute(shared, "llm.usage.token_type", PyStr("prompt")))>>
                ELSE << >>
        c == CompletionTokens(client, resp)
        pts2 == IF ~c.raised /\ token_counter /\ IsCount(c.val)
                THEN Append(pts1, Point(TOKENS, c.val,
                        set_attribute(shared, "llm.usage.token_type", PyStr("completion"))))
                ELSE pts1
        total == PyAdd(p.val, c.val)
        choices == Choices(resp)
        pts3 == IF choices > 0 /\ choice_counter
                THEN Append(pts2, Point(CHOICES, PyInt(choices),
                        set_attribute(shared, "llm.response.stop_reason", resp.stop_reason)))
                ELSE pts2
    IN  IF p.raised THEN Counted(attrs, << >>, TRUE)
        ELSE IF c.raised THEN Counted(attrs, pts1, TRUE)
        ELSE IF total.raised THEN Counted(attrs, pts2, TRUE)
        ELSE Counted(SetUsage(attrs, p.val, c.val, total.val), pts3, FALSE)

_set_token_usage_a(attrs, client, request, resp) ==
    LET p == PromptTokens(client, request)
        c == CompletionTokens(client, resp)
        total == PyAdd(p.val, c.val)
    IN  IF p.raised \/ c.raised \/ total.raised THEN Counted(attrs, << >>, TRUE)
        ELSE Counted(SetUsage(attrs, p.val, c.val, total.val), << >>, FALSE)

---------------------------------------------------------------------------
(* AnthropicInstrumentor *)

Packages == {t.package : t \in Targets}

\* the library versions the instrumentation supports: all of them have the
\* completions module, the older ones have no messages module
AvailableSets == {Packages, {"anthropic.resources.completions"}}

\* wrap_function_wrapper(package, "Object.method", wrapper): ModuleNotFoundError
\* when the module cannot be imported, which _instrument swallows
WrapOne(m, avail, w, wrapper) ==
    IF w.package \in avail THEN [m EXCEPT ![AttrOf(w)] = wrapper] ELSE m

RECURSIVE WrapAll(_, _, _, _, _)
WrapAll(m, avail, table, wrapper, i) ==
    IF i > Len(table) THEN m
    ELSE WrapAll(WrapOne(m, avail, table[i], wrapper), avail, table, wrapper, i + 1)

\* unwrap("<package>.<object>", method): imports the module, looks the class up
\* in it (ImportError when either is missing) and restores a wrapped attribute;
\* nothing is restored for a path that names no class
unwrap(m, avail, package, object, method) ==
    IF package \notin avail \/ Attr(package, object, method) \notin Targets
    THEN [methods |-> m, raised |-> TRUE]
    ELSE [methods |-> [m EXCEPT ![Attr(package, object, method)] = "original"],
          raised |-> FALSE]

\* the package _uninstrument names for entry w of the synchronous table
UnwrapPackage(w) == w.package

\* the package _uninstrument names for entry w of the asynchronous table
UnwrapAPackage(w) == "anthropic.resources.completions"

\* one loop of _uninstrument from entry i on; stops at the first exception
RECURSIVE UnwrapAll(_, _, _, _, _)
UnwrapAll(m, avail, table, async, i) ==
    IF i > Len(table) THEN [methods |-> m, raised |-> FALSE]
    ELSE LET w == table[i]
             r == unwrap(m, avail,
                         IF async THEN UnwrapAPackage(w) ELSE UnwrapPackage(w),
                         w.object, w.method)
         IN  IF r.raised THEN r ELSE UnwrapAll(r.methods, avail, table, async, i + 1)

---------------------------------------------------------------------------
(* The chat wrappers' extractors *)

\* the objects the chat wrappers are called on: which attribute names the model
ChatInstances ==
    {[modelAttr |-> a, model |-> "gpt"] : a \in {"model", "model_name", "neither"}}

\* an Anthropic resource object (Completions, Messages, ...)
Resource == [modelAttr |-> "_client", model |-> ""]

\* json.dumps(prompt.content) of a list content: raises on bytes
DumpsRaises(content) ==
    \E i \in 1..Len(content.parts) : content.parts[i].dataIsBytes

\* the loop of _handle_request over args[0][0], from prompt i on
RECURSIVE HandlePrompts(_, _, _)
HandlePrompts(attrs, msgs, i) ==
    IF i > Len(msgs) THEN Extracted(attrs, FALSE)
    ELSE LET c == msgs[i].content IN
         IF c.kind = "bad" THEN Extracted(attrs, TRUE)
         ELSE IF c.kind = "parts"
         THEN IF DumpsRaises(c) THEN Extracted(attrs, TRUE)
              ELSE HandlePrompts(
                     set_attribute(attrs, PromptKey(i - 1),
                                   PyStr("[" \o JoinParts(c.parts, TRUE) \o "]")),
                     msgs, i + 1)
         ELSE HandlePrompts(set_attribute(attrs, PromptKey(i - 1), PyStr(c.s)),
                            msgs, i + 1)

_handle_request(attrs, kw, inst, send) ==
    IF inst.modelAttr = "neither" THEN Extracted(attrs, TRUE)
    ELSE LET a1 == set_attribute(attrs, LLM_REQUEST_TYPE, PyStr("chat"))
             a2 == set_attribute(a1, LLM_REQUEST_MODEL, PyStr(inst.model))
             a3 == set_attribute(a2, LLM_RESPONSE_MODEL, PyStr(inst.model))
         IN  IF ~send THEN Extracted(a3, FALSE)
             ELSE IF kw.messages.kind = "list"
             THEN HandlePrompts(a3, kw.messages.items, 1)
             ELSE Extracted(a3, TRUE)

\* the loop of _handle_response over return_value.generations
_handle_response(attrs, resp, send) ==
    IF ~send THEN Extracted(attrs, FALSE)
    ELSE IF resp.content.kind = "list"
    THEN Extracted(SetCompletionItems(attrs, resp.content.items, 1), FALSE)
    ELSE Extracted(attrs, TRUE)

---------------------------------------------------------------------------
(* State of one call *)

Wrappers == {"_wrap", "_awrap", "chat_wrapper", "achat_wrapper"}
IsAsync(f) == f \in {"_awrap", "achat_wrapper"}
IsChat(f) == f \in {"chat_wrapper", "achat_wrapper"}

NoSpan ==
    [started |-> 0, ended |-> 0, status |-> "UNSET", attrs |-> NoAttrs]

\* the adapter: events the source produced, events handed to the consumer, the
\* accumulated text, how often the end-of-stream finalization ran
NoStream == [source |-> << >>, delivered |-> << >>, buffer |-> "", finalized |-> 0]

\* what the caller of the instrumented method gets
NoResult == [tag |-> "none", resp |-> NoneResponse, exc |-> NoException]
ValueResult(r) == [tag |-> "value", resp |-> r, exc |-> NoException]
ExceptionResult(e) == [tag |-> "exception", resp |-> NoneResponse, exc |-> e]
\* the awaitable the wrapped asynchronous method returned, not awaited
CoroutineResult == [tag |-> "coroutine", resp |-> NoneResponse, exc |-> NoException]
\* the sequence the streaming response adapter returns for stream r
StreamResult(r) == [tag |-> "stream", resp |-> r, exc |-> NoException]

\* what calling (and, for an asynchronous method, awaiting) the wrapped method
\* itself gives
Direct(out) ==
    IF out.raises THEN ExceptionResult(out.exc) ELSE ValueResult(out.resp)

instrVars == <<methods, instrState, available>>
inputVars == <<fn, recording, suppress, metricsEnabled, sendPrompts, kwargs,
               instance, _client, outcome>>
localVars == <<response, exception, metric_attributes, instruments>>
telemetryVars == <<span, points, log, stream>>

Init ==
    /\ methods = [t \in Targets |-> "original"]
    /\ instrState = "fresh"
    /\ available \in AvailableSets
    /\ callsMade = 0
    /\ created = 0
    /\ pc = "idle"
    /\ fn = "_wrap"
    /\ recording = TRUE
    /\ suppress = FALSE
    /\ metricsEnabled = TRUE
    /\ sendPrompts = TRUE
    /\ kwargs = EmptyRequest
    /\ instance = Resource
    /\ _client = NoClient
    /\ outcome = Returns(NoneResponse)
    /\ response = NoneResponse
    /\ exception = NoException
    /\ metric_attributes = NoAttrs
    /\ instruments = FALSE
    /\ invoked = << >>
    /\ awaited = 0
    /\ span = NoSpan
    /\ points = << >>
    /\ log = << >>
    /\ stream = NoStream
    /\ result = NoResult

---------------------------------------------------------------------------
(* AnthropicInstrumentor._instrument and ._uninstrument *)

\* a loop of _instrument without its try / except, from entry i on: the first
\* module that cannot be imported ends the loop with ModuleNotFoundError
RECURSIVE WrapUntilMissing(_, _, _, _, _)
WrapUntilMissing(m, avail, table, wrapper, i) ==
    IF i > Len(table) THEN [methods |-> m, raised |-> FALSE]
    ELSE IF table[i].package \notin avail THEN [methods |-> m, raised |-> TRUE]
    ELSE WrapUntilMissing(WrapOne(m, avail, table[i], wrapper), avail, table,
                          wrapper, i + 1)

\* faulty variant of Instrument: ModuleNotFoundError is not caught and leaves
\* _instrument at the first target whose module is missing
Instrument_Uncaught ==
    /\ pc = "idle"
    /\ instrState \in {"fresh", "uninstrumented"}
    /\ LET r1 == WrapUntilMissing(methods, available, WRAPPED_METHODS, "_wrap", 1)
           r2 == WrapUntilMissing(r1.methods, available, WRAPPED_AMETHODS, "_awrap", 1)
       IN  IF r1.raised
           THEN methods' = r1.methods /\ instrState' = "instrument_raised"
           ELSE /\ methods' = r2.methods
                /\ instrState' = IF r2.raised THEN "instrument_raised"
                                 ELSE "instrumented"
    /\ UNCHANGED <<available, callsMade, created, pc, inputVars, localVars,
                   invoked, awaited, telemetryVars, result>>

Instrument ==
    /\ pc = "idle"
    /\ instrState \in {"fresh", "uninstrumented"}
    /\ methods' = WrapAll(WrapAll(methods, available, WRAPPED_METHODS, "_wrap", 1),
                          available, WRAPPED_AMETHODS, "_awrap", 1)
    /\ instrState' = "instrumented"
    /\ UNCHANGED <<available, callsMade, created, pc, inputVars, localVars,
                   invoked, awaited, telemetryVars, result>>

Uninstrument ==
    /\ pc = "idle"
    /\ instrState \in {"instrumented", "uninstrument_raised"}
    /\ LET r1 == UnwrapAll(methods, available, WRAPPED_METHODS, FALSE, 1)
           r2 == UnwrapAll(r1.methods, available, WRAPPED_AMETHODS, TRUE, 1)
       IN  IF r1.raised
           THEN methods' = r1.methods /\ instrState' = "uninstrument_raised"
           ELSE /\ methods' = r2.methods
                /\ instrState' = IF r2.raised THEN "uninstrument_raised"
                                 ELSE "uninstrumented"
    /\ UNCHANGED <<available, callsMade, created, pc, inputVars, localVars,
                   invoked, awaited, telemetryVars, result>>
---------------------------------------------------------------------------
(* One instrumented call.  The environment's choices are made where the    *)
(* wrapper first meets them: the arguments and the ambient flags it tests  *)
(* on entry when the call starts, the span when the tracer hands it out,   *)
(* the wrapped method's outcome when it is invoked, the client's token     *)
(* counting when it is first asked to count.                               *)

\* the caller invokes an instrumented method; the Anthropic wrappers are
\* reached through a patched attribute only
Call ==
    /\ pc = "idle"
    /\ callsMade < MaxCalls
    /\ \E f \in Wrappers, sup \in BOOLEAN, me \in BOOLEAN, kw \in Requests,
          inst \in ChatInstances \cup {Resource} :
        /\ IsChat(f) \/ \E t \in Targets : methods[t] = f
        /\ IF IsChat(f) THEN inst \in ChatInstances /\ me ELSE inst = Resource
        /\ fn' = f
        /\ suppress' = sup
        /\ metricsEnabled' = me
        /\ kwargs' = kw
        /\ instance' = inst
    /\ callsMade' = callsMade + 1
    /\ pc' = "entry"
    /\ UNCHANGED <<instrVars, created, recording, sendPrompts, _client, outcome,
                   localVars, invoked, awaited, telemetryVars, result>>

\* faulty variant of SuppressedReturn: the wrapped method is called, its value dropped
SuppressedReturn_NoReturn(f, out) ==
    IF IsAsync(f) THEN CoroutineResult
    ELSE IF out.raises THEN ExceptionResult(out.exc)
    ELSE ValueResult(NoneResponse)

\* what a wrapper returns when instrumentation is suppressed:
\* `return wrapped(*args, **kwargs)`
SuppressedReturn(f, out) ==
    IF IsAsync(f) THEN CoroutineResult ELSE Direct(out)

\* if context_api.get_value(_SUPPRESS_INSTRUMENTATION_KEY): return wrapped(...)
Entry ==
    /\ pc = "entry"
    /\ IF suppress
       THEN /\ \E out \in Outcomes :
                /\ outcome' = out
                /\ result' = SuppressedReturn(fn, out)
            /\ invoked' = Append(invoked, kwargs)
            /\ pc' = "done"
       ELSE /\ pc' = IF fn = "_wrap" THEN "metrics" ELSE "start_span"
            /\ UNCHANGED <<invoked, result, outcome>>
    /\ UNCHANGED <<instrVars, callsMade, created, fn, recording, suppress,
                   metricsEnabled, sendPrompts, kwargs, instance, _client,
                   localVars, awaited, telemetryVars>>

\* the number of names the metrics tuple is unpacked into
UnpackTargets == 4
\* the length of the tuple _wrap unpacks when metrics are disabled
DisabledTupleLen == 3

\* if is_metrics_enabled(): ... = _create_metrics(meter) else: ... = (None, None, None)
CreateMetrics ==
    /\ pc = "metrics"
    /\ IF metricsEnabled
       THEN /\ instruments' = TRUE
            /\ created' = created + Len(_create_metrics)
            /\ pc' = "start_span"
            /\ UNCHANGED result
       ELSE IF DisabledTupleLen = UnpackTargets
       THEN /\ instruments' = FALSE
            /\ pc' = "start_span"
            /\ UNCHANGED <<created, result>>
       ELSE /\ result' = ExceptionResult([cls |-> "ValueError", id |-> "unpack"])
            /\ pc' = "done"
            /\ UNCHANGED <<created, instruments>>
    /\ UNCHANGED <<instrVars, callsMade, inputVars, response, exception,
                   metric_attributes, invoked, awaited, telemetryVars>>

\* the attributes start_span is given
InitialAttrs(f) ==
    IF IsChat(f) THEN NoAttrs
    ELSE set_attribute(set_attribute(NoAttrs, LLM_VENDOR, PyStr("Anthropic")),
                       LLM_REQUEST_TYPE, PyStr("completion"))

\* tracer.start_span(...) / tracer.start_as_current_span(name)
StartSpan ==
    /\ pc = "start_span"
    /\ \E rec \in BOOLEAN, sp \in BOOLEAN :
        /\ recording' = rec
        /\ sendPrompts' = sp
        /\ span' = [started |-> span.started + 1, ended |-> 0, status |-> "UNSET",
                    attrs |-> IF rec THEN InitialAttrs(fn) ELSE NoAttrs]
    /\ log' = Append(log, "start_span")
    /\ pc' = "request"
    /\ UNCHANGED <<instrVars, callsMade, created, fn, suppress, metricsEnabled,
                   kwargs, instance, _client, outcome, localVars, invoked,
                   awaited, points, stream, result>>

\* the span leaves the `with` block of a chat wrapper through an exception
EndWithError(sp) == [sp EXCEPT !.ended = @ + 1, !.status = "ERROR"]

\* faulty variant of Reraise: the handler raises a new exception of its own class
Reraise_Wrapped(exc) == ExceptionResult([cls |-> "RuntimeError", id |-> exc.id])

\* the exception the wrapped call raised leaves the wrapper: `raise e` in
\* _wrap, no handler at all in _awrap and the chat wrappers
Reraise(exc) == ExceptionResult(exc)

\* result of a try / except Exception block around an extractor: what it wrote,
\* whether the handler logged a warning, whether an exception left the block
Guarded(attrs, pts, warned, escaped) ==
    [attrs |-> attrs, points |-> pts, warned |-> warned, escaped |-> escaped]

\* faulty variant of GuardedInput: no try / except around the request extraction
GuardedInput_Unguarded(attrs, rec, kw, send) ==
    IF ~rec THEN Guarded(attrs, << >>, FALSE, FALSE)
    ELSE LET r == _set_input_attributes(attrs, kw, send)
         IN  Guarded(r.attrs, << >>, FALSE, r.raised)

\* try: if span.is_recording(): _set_input_attributes(span, kwargs)
\* except Exception: logger.warning(...)
GuardedInput(attrs, rec, kw, send) ==
    IF ~rec THEN Guarded(attrs, << >>, FALSE, FALSE)
    ELSE LET r == _set_input_attributes(attrs, kw, send)
         IN  Guarded(r.attrs, << >>, r.raised, FALSE)

\* the exception an extractor raised, when it reaches the caller
ExtractorError(where) == [cls |-> "AttributeError", id |-> where]

\* request attributes: guarded by try/except in _wrap and _awrap, not in the
\* chat wrappers
SetInput ==
    /\ pc = "request"
    /\ IF IsChat(fn)
       THEN LET r == _handle_request(span.attrs, kwargs, instance, sendPrompts)
                sp == IF recording THEN [span EXCEPT !.attrs = r.attrs] ELSE span
            IN  IF r.raised
                THEN /\ span' = EndWithError(sp)
                     /\ log' = log \o <<"set_input", "end_span">>
                     /\ result' = ExceptionResult(ExtractorError("_handle_request"))
                     /\ pc' = "done"
                ELSE /\ span' = sp
                     /\ log' = Append(log, "set_input")
                     /\ pc' = "invoke"
                     /\ UNCHANGED result
       ELSE LET g == GuardedInput(span.attrs, recording, kwargs, sendPrompts)
            IN  /\ span' = [span EXCEPT !.attrs = g.attrs]
                /\ log' = log \o <<"set_input">>
                            \o (IF g.warned THEN <<"warning_input">> ELSE << >>)
                /\ IF g.escaped
                   THEN result' = ExceptionResult(ExtractorError("_set_input_attributes"))
                        /\ pc' = "done"
                   ELSE pc' = "invoke" /\ UNCHANGED result
    /\ UNCHANGED <<instrVars, callsMade, created, inputVars, localVars, invoked,
                   awaited, points, stream>>

\* the arguments the wrappers pass to the wrapped method: (*args, **kwargs)
PassedArgs(kw) == kw

\* response = wrapped(*args, **kwargs), awaited in the asynchronous wrappers
Invoke ==
    /\ pc = "invoke"
    /\ invoked' = Append(invoked, PassedArgs(kwargs))
    /\ awaited' = IF IsAsync(fn) THEN awaited + 1 ELSE awaited
    /\ \E out \in Outcomes :
        /\ outcome' = out
        /\ log' = IF out.raises /\ IsChat(fn) THEN log \o <<"invoke", "end_span">>
                  ELSE Append(log, "invoke")
        /\ IF out.raises
           THEN IF fn = "_wrap"
                THEN /\ exception' = out.exc
                     /\ pc' = "finally"
                     /\ UNCHANGED <<response, span, result>>
                ELSE /\ result' = Reraise(out.exc)
                     /\ span' = IF IsChat(fn) THEN EndWithError(span) ELSE span
                     /\ pc' = "done"
                     /\ UNCHANGED <<response, exception>>
           ELSE /\ response' = out.resp
                /\ pc' = IF fn = "_wrap" THEN "finally"
                         ELSE IF fn = "_awrap" THEN "dispatch" ELSE "response"
                /\ UNCHANGED <<exception, span, result>>
    /\ UNCHANGED <<instrVars, callsMade, created, fn, recording, suppress,
                   metricsEnabled, sendPrompts, kwargs, instance, _client,
                   metric_attributes, instruments, points, stream>>

\* faulty variant of FinallyPoints: the duration is recorded in the except
\* branch only
FinallyPoints_OnlyOnError(shared, exc, have) ==
    IF exc # NoException /\ have
    THEN <<Point(DURATION, Elapsed, shared), Point(EXCEPTIONS, PyInt(1), shared)>>
    ELSE << >>

\* the data points the finally block of _wrap records
FinallyPoints(shared, exc, have) ==
    (IF have THEN <<Point(DURATION, Elapsed, shared)>> ELSE << >>)
        \o (IF exc # NoException /\ have
            THEN <<Point(EXCEPTIONS, PyInt(1), shared)>> ELSE << >>)

\* the instruments of the points pts, in order
Insts(pts) == [i \in 1..Len(pts) |-> pts[i].inst]

\* the finally block of _wrap, then the re-raise of the wrapped call's exception
Finally ==
    /\ pc = "finally"
    /\ LET shared == _get_shared_metric_attributes(response, exception)
           pts == FinallyPoints(shared, exception, instruments)
       IN  /\ metric_attributes' = shared
           /\ points' = points \o pts
           /\ log' = log \o Insts(pts)
    /\ IF exception # NoException
       THEN result' = Reraise(exception) /\ pc' = "done"
       ELSE pc' = "dispatch" /\ UNCHANGED result
    /\ UNCHANGED <<instrVars, callsMade, created, inputVars, response, exception,
                   instruments, invoked, awaited, span, stream>>

\* faulty variant of Dispatch: the streaming branch falls through to the
\* wrapper's own span.end() before the adapter's sequence is returned
Dispatch_EndsSpan ==
    /\ pc = "dispatch"
    /\ IF is_streaming_response(response)
       THEN /\ result' = StreamResult(response)
            /\ span' = [span EXCEPT !.ended = @ + 1]
            /\ log' = log \o <<"handoff", "end_span">>
            /\ pc' = "streaming"
       ELSE /\ pc' = IF Truthy(response) THEN "response" ELSE "end"
            /\ UNCHANGED <<result, log, span>>
    /\ UNCHANGED <<instrVars, callsMade, created, inputVars, localVars, invoked,
                   awaited, points, stream>>

\* if is_streaming_response(response): return _build_from_streaming_response(...)
\* elif response: ...
Dispatch ==
    /\ pc = "dispatch"
    /\ IF is_streaming_response(response)
       THEN /\ result' = StreamResult(response)
            /\ log' = Append(log, "handoff")
            /\ pc' = "streaming"
       ELSE /\ pc' = IF Truthy(response) THEN "response" ELSE "end"
            /\ UNCHANGED <<result, log>>
    /\ UNCHANGED <<instrVars, callsMade, created, inputVars, localVars, invoked,
                   awaited, span, points, stream>>


\* faulty variant of WrapResponse: _set_token_usage is called without the
\* call's metric_attributes and falls back to its default {}
WrapResponse_NoShared(attrs, rec, client, request, resp, shared, send, have) ==
    IF ~rec THEN Guarded(attrs, << >>, FALSE, FALSE)
    ELSE LET r1 == _set_response_attributes(attrs, resp, send)
             r2 == _set_token_usage(r1.attrs, client, request, resp, NoAttrs, have, have)
         IN  IF r1.raised THEN Guarded(r1.attrs, << >>, TRUE, FALSE)
             ELSE Guarded(r2.attrs, r2.points, r2.raised, FALSE)

\* faulty variant of WrapResponse: span.is_recording() is not asked
WrapResponse_IgnoresRecording(attrs, rec, client, request, resp, shared, send, have) ==
    LET r1 == _set_response_attributes(attrs, resp, send)
        r2 == _set_token_usage(r1.attrs, client, request, resp, shared, have, have)
    IN  IF r1.raised THEN Guarded(r1.attrs, << >>, TRUE, FALSE)
        ELSE Guarded(r2.attrs, r2.points, r2.raised, FALSE)

\* try: if span.is_recording(): _set_response_attributes(...); _set_token_usage(...)
\* except Exception: logger.warning(...)                              (in _wrap)
WrapResponse(attrs, rec, client, request, resp, shared, send, have) ==
    IF ~rec THEN Guarded(attrs, << >>, FALSE, FALSE)
    ELSE LET r1 == _set_response_attributes(attrs, resp, send)
             r2 == _set_token_usage(r1.attrs, client, request, resp, shared, have, have)
         IN  IF r1.raised THEN Guarded(r1.attrs, << >>, TRUE, FALSE)
             ELSE Guarded(r2.attrs, r2.points, r2.raised, FALSE)

\* try: if span.is_recording(): _set_response_attributes(...);
\*      await _set_token_usage_a(...)
\* except Exception: logger.warning(...)                             (in _awrap)
AwrapResponse(attrs, rec, client, request, resp, send) ==
    IF ~rec THEN Guarded(attrs, << >>, FALSE, FALSE)
    ELSE LET r1 == _set_response_attributes(attrs, resp, send)
             r2 == _set_token_usage_a(r1.attrs, client, request, resp)
         IN  IF r1.raised THEN Guarded(r1.attrs, << >>, TRUE, FALSE)
             ELSE Guarded(r2.attrs, << >>, r2.raised, FALSE)

\* response attributes: guarded by try/except in _wrap and _awrap, not in the
\* chat wrappers
SetResponse ==
    /\ pc = "response"
    /\ IF IsChat(fn)
       THEN LET r == _handle_response(span.attrs, response, sendPrompts)
                sp == IF recording THEN [span EXCEPT !.attrs = r.attrs] ELSE span
            IN  /\ UNCHANGED <<points, _client>>
                /\ IF r.raised
                   THEN /\ span' = EndWithError(sp)
                        /\ log' = log \o <<"set_response", "end_span">>
                        /\ result' = ExceptionResult(ExtractorError("_handle_response"))
                        /\ pc' = "done"
                   ELSE /\ span' = sp
                        /\ log' = Append(log, "set_response")
                        /\ pc' = "end"
                        /\ UNCHANGED result
       ELSE \E c \in (IF recording THEN Clients ELSE {NoClient}) :
              LET g == IF fn = "_wrap"
                       THEN WrapResponse(span.attrs, recording, c, kwargs, response,
                                         metric_attributes, sendPrompts, instruments)
                       ELSE AwrapResponse(span.attrs, recording, c, kwargs, response,
                                          sendPrompts)
              IN  /\ _client' = c
                  /\ span' = [span EXCEPT !.attrs = g.attrs]
                  /\ points' = points \o g.points
                  /\ log' = log \o <<"set_response">> \o Insts(g.points)
                              \o (IF g.warned THEN <<"warning_response">> ELSE << >>)
                  /\ IF g.escaped
                     THEN result' = ExceptionResult(ExtractorError("_set_response_attributes"))
                          /\ pc' = "done"
                     ELSE pc' = "status" /\ UNCHANGED result
    /\ UNCHANGED <<instrVars, callsMade, created, fn, recording, suppress,
                   metricsEnabled, sendPrompts, kwargs, instance, outcome,
                   localVars, invoked, awaited, stream>>

\* if span.is_recording(): span.set_status(Status(StatusCode.OK))
SetStatus ==
    /\ pc = "status"
    /\ span' = IF recording THEN [span EXCEPT !.status = "OK"] ELSE span
    /\ log' = IF recording THEN Append(log, "set_status") ELSE log
    /\ pc' = "end"
    /\ UNCHANGED <<instrVars, callsMade, created, inputVars, localVars, invoked,
                   awaited, points, stream, result>>

\* faulty variant of ReturnValue: the wrapper rebinds response to response.__dict__
\* and returns that
ReturnValue_Dict(resp) == ValueResult([resp EXCEPT !.kind = "dict"])

\* the value the wrappers return on the non-streaming path: `return response`
ReturnValue(resp) == ValueResult(resp)

\* span.end() (the end of the `with` block in the chat wrappers); return response
EndSpan ==
    /\ pc = "end"
    /\ span' = [span EXCEPT !.ended = @ + 1]
    /\ log' = Append(log, "end_span")
    /\ result' = ReturnValue(response)
    /\ pc' = "done"
    /\ UNCHANGED <<instrVars, callsMade, created, inputVars, localVars, invoked,
                   awaited, points, stream>>

---------------------------------------------------------------------------
(* The streaming response adapter *)

\* faulty variant of StreamNext: the text delta is put in front of the buffer
StreamNext_Prepend ==
    /\ pc = "streaming"
    /\ Len(stream.source) < MaxStreamLen
    /\ \E ev \in Deltas :
        stream' = [stream EXCEPT !.source = Append(@, ev),
                                 !.delivered = Append(@, ev),
                                 !.buffer = ev \o @]
    /\ UNCHANGED <<instrVars, callsMade, created, pc, inputVars, localVars,
                   invoked, awaited, span, points, log, result>>

\* the source produces its next event and the adapter hands it to the consumer
StreamNext ==
    /\ pc = "streaming"
    /\ Len(stream.source) < MaxStreamLen
    /\ \E ev \in Deltas :
        stream' = [stream EXCEPT !.source = Append(@, ev),
                                 !.delivered = Append(@, ev),
                                 !.buffer = @ \o ev]
    /\ UNCHANGED <<instrVars, callsMade, created, pc, inputVars, localVars,
                   invoked, awaited, span, points, log, result>>

\* end-of-stream finalization: completion attribute from the buffer, token
\* usage, status OK, span end
Finalize(sp, rec, client, request, buffer) ==
    LET a1 == set_attribute(sp.attrs, CompletionKey(0), PyStr(buffer))
        p == PromptTokens(client, request)
        c == IF buffer = "" THEN Ok(PyInt(0)) ELSE count_tokens(client, PyStr(buffer))
        total == PyAdd(p.val, c.val)
        a2 == IF p.raised \/ c.raised \/ total.raised THEN a1
              ELSE SetUsage(a1, p.val, c.val, total.val)
    IN  [started |-> sp.started, ended |-> sp.ended + 1,
         status |-> IF rec THEN "OK" ELSE sp.status,
         attrs |-> IF rec THEN a2 ELSE sp.attrs]

\* the adapter finalizes the span; how marks why ("stream_end", "stream_close")
StreamFinish(how) ==
    /\ \E c \in (IF recording THEN Clients ELSE {NoClient}) :
        /\ _client' = c
        /\ span' = Finalize(span, recording, c, kwargs, stream.buffer)
    /\ stream' = [stream EXCEPT !.finalized = @ + 1]
    /\ log' = log \o <<how, "end_span">>
    /\ pc' = "done"
    /\ UNCHANGED <<instrVars, callsMade, created, fn, recording, suppress,
                   metricsEnabled, sendPrompts, kwargs, instance, outcome,
                   localVars, invoked, awaited, points, result>>

\* the source sequence is exhausted
StreamExhaust ==
    /\ pc = "streaming"
    /\ StreamFinish("stream_end")

\* the sequence's close / cleanup path ran already
Closed == \E i \in 1..Len(log) : log[i] = "stream_close"

\* faulty variant of CloseFinalizes: the cleanup path finalizes unconditionally
CloseFinalizes_Always(st) == TRUE

\* the cleanup path finalizes only a stream that has not been finalized yet
CloseFinalizes(st) == st.finalized = 0

\* the sequence's close / cleanup path runs: the consumer stops early, or
\* cleans up after it has exhausted the stream
StreamClose ==
    /\ pc = "streaming" \/ (pc = "done" /\ result.tag = "stream" /\ ~Closed)
    /\ IF CloseFinalizes(stream)
       THEN StreamFinish("stream_close")
       ELSE /\ log' = Append(log, "stream_close")
            /\ UNCHANGED <<instrVars, callsMade, created, pc, inputVars, localVars,
                           invoked, awaited, span, points, stream, result>>

---------------------------------------------------------------------------

\* the call is over; the next one starts with fresh locals, span and data points
Return ==
    /\ pc = "done"
    /\ pc' = "idle"
    /\ fn' = "_wrap"
    /\ recording' = TRUE
    /\ suppress' = FALSE
    /\ metricsEnabled' = TRUE
    /\ sendPrompts' = TRUE
    /\ kwargs' = EmptyRequest
    /\ instance' = Resource
    /\ _client' = NoClient
    /\ outcome' = Returns(NoneResponse)
    /\ response' = NoneResponse
    /\ exception' = NoException
    /\ metric_attributes' = NoAttrs
    /\ instruments' = FALSE
    /\ invoked' = << >>
    /\ awaited' = 0
    /\ span' = NoSpan
    /\ points' = << >>
    /\ log' = << >>
    /\ stream' = NoStream
    /\ result' = NoResult
    /\ UNCHANGED <<instrVars, callsMade, created>>

Next ==
    \/ Instrument
    \/ Uninstrument
    \/ Call
    \/ Entry
    \/ CreateMetrics
    \/ StartSpan
    \/ SetInput
    \/ Invoke
    \/ Finally
    \/ Dispatch
    \/ SetResponse
    \/ SetStatus
    \/ EndSpan
    \/ StreamNext
    \/ StreamExhaust
    \/ StreamClose
    \/ Return

Spec == Init /\ [][Next]_vars

---------------------------------------------------------------------------
(* Properties *)

Anthropic == {"_wrap", "_awrap"}

\* the running call went through a wrapper as the Anthropic instrumentation
\* installs it, was not suppressed, and its wrapped method has been invoked
Instrumented(f) == fn = f /\ ~suppress /\ invoked # << >>

\* the call is over for the wrapper: it returned or raised
Returned == pc \in {"done", "streaming"}

\* the data points of the call recorded on instrument inst
PointsOf(inst) == SelectSeq(points, LAMBDA p : p.inst = inst)

\* the attribute keys the response extractors write
ResponseKeys ==
    {LLM_RESPONSE_MODEL, LLM_USAGE_PROMPT_TOKENS, LLM_USAGE_COMPLETION_TOKENS,
     LLM_USAGE_TOTAL_TOKENS, LLM_FINISH_REASON} \cup {CompletionKey(i) : i \in 0..3}

C2_SpanEndedOnce ==
    (pc = "done" /\ fn \in Anthropic /\ span.started > 0) => span.ended = 1

\* C3: when the wrapped method raises in a non-suppressed _wrap / _awrap call,
\* the caller gets that very exception, the span carries no response,
\* completion or usage attribute, and no token or choice point is recorded.
C3_ExceptionPropagates ==
    (/\ pc = "done"
     /\ \E f \in Anthropic : Instrumented(f)
     /\ outcome.raises)
        => /\ result = ExceptionResult(outcome.exc)
           /\ DOMAIN span.attrs \cap ResponseKeys = {}
           /\ PointsOf(TOKENS) = << >>
           /\ PointsOf(CHOICES) = << >>

\* C3 witness: _wrap re-raised the wrapped call's exception after recording
\* the duration
C3_Witness ==
    /\ pc = "done"
    /\ Instrumented("_wrap")
    /\ outcome.raises
    /\ recording
    /\ result = ExceptionResult(outcome.exc)
    /\ Len(PointsOf(DURATION)) = 1

Warned(w) == w \in {log[i] : i \in 1..Len(log)}

\* the request extraction of the running call raises
InputFails ==
    /\ span.started = 1
    /\ recording
    /\ _set_input_attributes(InitialAttrs(fn), kwargs, sendPrompts).raised

C5_MetricsDisabled ==
    (pc = "done" /\ fn = "_wrap" /\ callsMade > 0 /\ ~suppress /\ ~metricsEnabled)
        => /\ ~instruments
           /\ points = << >>
           /\ span.started = 1
           /\ span.ended = 1
           /\ invoked = <<kwargs>>
           /\ result = Direct(outcome)

\* C6: with the suppression flag set, _wrap and chat_wrapper start no span,
\* create no instrument, record no data point, invoke the wrapped method
\* exactly once with the original arguments and return its value or raise its
\* exception unchanged.
C6_SuppressedSync ==
    (pc = "done" /\ suppress /\ fn \in {"_wrap", "chat_wrapper"})
        => /\ span = NoSpan
           /\ ~instruments
           /\ points = << >>
           /\ log = << >>
           /\ invoked = <<kwargs>>
           /\ result = Direct(outcome)

\* C6 witness: a suppressed _wrap call handed back a real response
C6_Witness ==
    /\ pc = "done"
    /\ suppress
    /\ fn = "_wrap"
    /\ outcome = Returns(MessageResponse)
    /\ kwargs = MessagesRequest
    /\ result = ValueResult(MessageResponse)

\* C7: with the suppression flag set, awaiting the instrumented asynchronous
\* method gives what awaiting the wrapped method gives.
C7_SuppressedAsync ==
    (pc = "done" /\ suppress /\ IsAsync(fn)) => result = Direct(outcome)

\* C8: with metrics enabled every non-suppressed Anthropic call, synchronous
\* or asynchronous, records exactly one duration point, whether the wrapped
\* method returns or raises.
C8_OneDuration ==
    (/\ Returned
     /\ \E f \in Anthropic : Instrumented(f)
     /\ metricsEnabled)
        => Len(PointsOf(DURATION)) = 1

\* C9: in a non-suppressed _wrap call with metrics enabled the exception
\* counter is added to iff the wrapped method raised; the increment is 1,
\* tagged error.type = the exception's class name, and the duration point of
\* the failing call carries the same error.type.
C9_ExceptionCounter ==
    (/\ Returned
     /\ Instrumented("_wrap")
     /\ metricsEnabled)
        => LET ex == PointsOf(EXCEPTIONS)
               du == PointsOf(DURATION)
           IN  /\ outcome.raises <=> ex # << >>
               /\ outcome.raises =>
                    /\ Len(ex) = 1
                    /\ ex[1].value = PyInt(1)
                    /\ "error.type" \in DOMAIN ex[1].attributes
                    /\ ex[1].attributes["error.type"] = PyStr(outcome.exc.cls)
                    /\ Len(du) = 1
                    /\ du[1].attributes = ex[1].attributes

\* C9 witness: a failing _wrap call with its exception point
C9_Witness ==
    /\ pc = "done"
    /\ Instrumented("_wrap")
    /\ metricsEnabled
    /\ outcome.raises
    /\ outcome.exc.cls = "RateLimitError"
    /\ Len(PointsOf(EXCEPTIONS)) = 1

\* C10: after _instrument() and then _uninstrument(), with every module of the
\* library importable, each target of both tables holds the original method
\* again and _uninstrument() did not raise.
C10_UninstallRestores ==
    (available = Packages /\ instrState \in {"uninstrumented", "uninstrument_raised"})
        => /\ instrState = "uninstrumented"
           /\ \A t \in Targets : methods[t] = "original"

\* the wrapper _instrument binds to entry w of a table, or the original method
\* when the entry's module cannot be imported
Bound(w, wrapper) ==
    IF w.package \in available THEN wrapper ELSE "original"

\* C11: _instrument() never raises; a target whose module cannot be imported
\* is left alone, and every other target of the synchronous table holds _wrap
\* and every other target of the asynchronous table holds _awrap.
C11_MissingTargetSkipped ==
    /\ instrState # "instrument_raised"
    /\ instrState = "instrumented" =>
        /\ \A i \in 1..Len(WRAPPED_METHODS) :
              methods[AttrOf(WRAPPED_METHODS[i])] = Bound(WRAPPED_METHODS[i], "_wrap")
        /\ \A i \in 1..Len(WRAPPED_AMETHODS) :
              methods[AttrOf(WRAPPED_AMETHODS[i])] = Bound(WRAPPED_AMETHODS[i], "_awrap")

\* C11 witness: the messages module is missing, its targets were skipped and
\* the targets of the completions module of both tables are wrapped
C11_Witness ==
    /\ instrState = "instrumented"
    /\ "anthropic.resources.messages" \notin available
    /\ methods[Attr("anthropic.resources.messages", "Messages", "create")] = "original"
    /\ methods[Attr("anthropic.resources.completions", "Completions", "create")] = "_wrap"
    /\ methods[Attr("anthropic.resources.completions", "AsyncCompletions", "create")]
            = "_awrap"

\* the wrapped method of the running Anthropic call returned a streaming
\* response and the wrapper has returned
Streamed ==
    /\ pc \in {"streaming", "done"}
    /\ \E f \in Anthropic : Instrumented(f)
    /\ ~outcome.raises
    /\ is_streaming_response(outcome.resp)
    /\ fn = "_wrap" => metricsEnabled

\* the number of times op occurs in the call's telemetry log
Count(op) == Cardinality({i \in 1..Len(log) : log[i] = op})

C13_FinalizedOnce ==
    Streamed =>
        /\ stream.finalized <= 1
        /\ span.ended <= 1
        /\ pc = "done" =>
              /\ stream.finalized = 1
              /\ span.ended = 1
              /\ Count("end_span") = 1
              /\ Count("stream_end") + Count("stream_close") >= 1
              /\ recording =>
                    /\ span.status = "OK"
                    /\ CompletionKey(0) \in DOMAIN span.attrs
                    /\ (_client.count = "int" /\ _client.n > 0 /\ ~Falsy(kwargs.prompt))
                          => LLM_USAGE_TOTAL_TOKENS \in DOMAIN span.attrs

\* C13 witness: the consumer exhausted the stream and then closed it; the
\* span was finalized once
C13_Witness ==
    /\ pc = "done"
    /\ Streamed
    /\ recording
    /\ Warned("stream_end")
    /\ Warned("stream_close")
    /\ stream.finalized = 1
    /\ span.ended = 1

\* the concatenation of the text deltas ds, in order
RECURSIVE Concat(_)
Concat(ds) == IF ds = << >> THEN "" ELSE Head(ds) \o Concat(Tail(ds))

\* C14: once a streaming call (through _wrap or _awrap) has been consumed to
\* exhaustion, llm.completions.0.content of the recording span equals the
\* concatenation of the text deltas of the stream's events in event order,
\* and the consumer received the source's events unchanged and in order.
C14_StreamedCompletion ==
    (Streamed /\ pc = "done" /\ Warned("stream_end")) =>
        /\ stream.delivered = stream.source
        /\ recording =>
              /\ CompletionKey(0) \in DOMAIN span.attrs
              /\ span.attrs[CompletionKey(0)] = PyStr(Concat(stream.source))

\* C14 witness: an asynchronous stream of two different text deltas was
\* consumed to exhaustion
C14_Witness ==
    /\ pc = "done"
    /\ Streamed
    /\ fn = "_awrap"
    /\ recording
    /\ Warned("stream_end")
    /\ stream.source = <<"a", "b">>
    /\ span.attrs[CompletionKey(0)] = PyStr("ab")

\* a non-suppressed Anthropic call whose wrapped method returned a
\* non-streaming value has returned
Succeeded ==
    /\ pc = "done"
    /\ \E f \in Anthropic : Instrumented(f)
    /\ fn = "_wrap" => metricsEnabled
    /\ ~outcome.raises
    /\ ~is_streaming_response(outcome.resp)

\* the value of usage attribute k of the span; a falsy count is never written,
\* so an attribute that is not there stands for 0
UsageAttr(k) == IF k \in DOMAIN span.attrs THEN span.attrs[k] ELSE PyInt(0)

\* C15: after a successful non-streaming call through _wrap or _awrap with a
\* recording span, llm.usage.prompt_tokens + llm.usage.completion_tokens
\* equals llm.usage.total_tokens on the span, also when the response carries
\* usage and the token counting runs as well or fails part-way.
C15_UsageSums ==
    (Succeeded /\ recording) =>
        PyAdd(UsageAttr(LLM_USAGE_PROMPT_TOKENS), UsageAttr(LLM_USAGE_COMPLETION_TOKENS))
            = Ok(UsageAttr(LLM_USAGE_TOTAL_TOKENS))

\* C16: when the response of a successful non-streaming call carries usage,
\* the final llm.usage.prompt_tokens and llm.usage.completion_tokens of the
\* recording span are usage.input_tokens and usage.output_tokens, whatever
\* the client's token counting returns.
C16_UsagePrecedence ==
    (Succeeded /\ recording /\ outcome.resp.usage.kind = "usage") =>
        /\ UsageAttr(LLM_USAGE_PROMPT_TOKENS) = PyInt(outcome.resp.usage.input_tokens)
        /\ UsageAttr(LLM_USAGE_COMPLETION_TOKENS) = PyInt(outcome.resp.usage.output_tokens)

\* C17: the instruments are created when the instrumentation is installed:
\* no step of an instrumented call creates an instrument on the meter, so the
\* number of creations does not grow with the number of calls.
C17_CreatedAtInstall == [][pc # "idle" => created' = created]_vars

\* a successful non-streaming _wrap call that returned a response object
WrapSucceeded == Succeeded /\ fn = "_wrap" /\ Truthy(outcome.resp)

TokenTypes(pts) == [i \in 1..Len(pts) |-> pts[i].attributes["llm.usage.token_type"].s]

\* C19: in a successful non-streaming _wrap call with metrics enabled and a
\* recording span each token point has a non-negative integer value and the
\* shared attributes plus llm.usage.token_type, "prompt" or "completion", at
\* most one point of each type, prompt first; when the client counts
\* non-negative integers and the extraction does not fail there are exactly
\* the two points; a count that is negative or not an integer is the value
\* of no data point.
C19_TokenPoints ==
    (WrapSucceeded /\ recording) =>
        LET tk == PointsOf(TOKENS) IN
        /\ \A i \in 1..Len(tk) :
              /\ tk[i].value.kind = "int"
              /\ tk[i].value.n >= 0
              /\ DOMAIN tk[i].attributes = {"llm.response.model", "llm.usage.token_type"}
              /\ tk[i].attributes["llm.response.model"] = outcome.resp.model
        /\ TokenTypes(tk) \in {<< >>, <<"prompt">>, <<"completion">>,
                               <<"prompt", "completion">>}
        /\ (_client.count = "int" /\ ~Warned("warning_response"))
              => TokenTypes(tk) = <<"prompt", "completion">>
        /\ \A i \in 1..Len(points) :
              /\ points[i].value # PyInt(0 - 1)
              /\ points[i].value # PyStr("error")

\* C19 witness: the client's count_tokens returned a negative number for the
\* prompt and for the completion and no token point was recorded
C19_Witness ==
    /\ WrapSucceeded
    /\ recording
    /\ kwargs = CompletionRequest
    /\ outcome.resp = CompletionResponse
    /\ _client.count = "negative"
    /\ PointsOf(TOKENS) = << >>
    /\ Len(PointsOf(CHOICES)) = 1

\* C20: a choice point of a successful non-streaming _wrap call has the
\* number of items of the response's list-valued content as its value, or 1
\* when the response has a free-text completion instead, and the shared
\* attributes plus the response's stop reason as attributes; there is at most
\* one, none when the response has neither, and exactly one when it has and
\* the extraction did not fail.
C20_ChoicePoint ==
    (WrapSucceeded /\ recording) =>
        LET ch == PointsOf(CHOICES)
            r == outcome.resp
            n == IF r.content.kind = "list" THEN Len(r.content.items)
                 ELSE IF r.completion.kind = "str" /\ r.completion.s # "" THEN 1
                 ELSE 0
        IN  /\ Len(ch) <= 1
            /\ \A i \in 1..Len(ch) :
                  /\ ch[i].value = PyInt(n)
                  /\ n > 0
                  /\ ch[i].attributes =
                        [k \in {"llm.response.model", "llm.response.stop_reason"} |->
                            IF k = "llm.response.model" THEN r.model ELSE r.stop_reason]
            /\ n = 0 => ch = << >>
            /\ (n > 0 /\ ~Warned("warning_response")) => Len(ch) = 1

\* C20 witness: a response with two content blocks gave a choice point of value 2
C20_Witness ==
    /\ WrapSucceeded
    /\ recording
    /\ outcome.resp = MessageResponse
    /\ Len(PointsOf(CHOICES)) = 1
    /\ PointsOf(CHOICES)[1].value = PyInt(2)
    /\ PointsOf(CHOICES)[1].attributes["llm.response.stop_reason"] = PyStr("end_turn")

\* C21: a successful non-streaming call through _awrap with metrics enabled
\* records at least one token point, at least one choice point of value >= 1
\* and at least one duration point, each tagged with llm.response.model.
C21_AsyncMetrics ==
    (/\ Succeeded
     /\ fn = "_awrap"
     /\ metricsEnabled
     /\ recording
     /\ outcome.resp = MessageResponse
     /\ _client.count = "int")
        => /\ PointsOf(TOKENS) # << >>
           /\ PointsOf(CHOICES) # << >>
           /\ PointsOf(DURATION) # << >>
           /\ \A i \in 1..Len(points) :
                 "llm.response.model" \in DOMAIN points[i].attributes

\* C22: in chat_wrapper / achat_wrapper a failure of _handle_request or
\* _handle_response never reaches the caller: the wrapped method is invoked
\* exactly once and the caller gets its result.
C22_ChatFailuresContained ==
    (pc = "done" /\ IsChat(fn) /\ ~suppress)
        => /\ result.exc.id \notin {"_handle_request", "_handle_response"}
           /\ invoked = <<kwargs>>
           /\ result = Direct(outcome)

\* the llm.prompts.* and llm.completions.* keys the extractors write
ContentKeys ==
    {PromptKey(i) : i \in 0..3} \cup {CompletionKey(i) : i \in 0..3}
        \cup {LLM_FINISH_REASON}

\* the request parameters _set_input_attributes copies, with their keys
RequestParams ==
    {<<LLM_REQUEST_MODEL, kwargs.model>>,
     <<LLM_REQUEST_MAX_TOKENS, kwargs.max_tokens_to_sample>>,
     <<LLM_TEMPERATURE, kwargs.temperature>>,
     <<LLM_TOP_P, kwargs.top_p>>,
     <<LLM_FREQUENCY_PENALTY, kwargs.frequency_penalty>>,
     <<LLM_PRESENCE_PENALTY, kwargs.presence_penalty>>,
     <<LLM_IS_STREAMING, kwargs.stream>>}

\* the request extraction of the running call is over
PastRequest == pc \notin {"idle", "entry", "metrics", "start_span", "request"}

\* C23: with the send-prompts flag off the extractors of the Anthropic and the
\* chat wrappers set no llm.prompts.* and no llm.completions.* attribute,
\* while the request parameters, the models and the usage are still set on a
\* recording span.
C23_SendPromptsOff ==
    (span.started = 1 /\ ~sendPrompts /\ stream.finalized = 0) =>
        /\ DOMAIN span.attrs \cap ContentKeys = {}
        /\ (recording /\ PastRequest /\ fn \in Anthropic) =>
              \A kv \in RequestParams :
                  ~Falsy(kv[2]) => /\ kv[1] \in DOMAIN span.attrs
                                   /\ span.attrs[kv[1]] = kv[2]
        /\ (recording /\ PastRequest /\ IsChat(fn) /\ instance.modelAttr # "neither") =>
              /\ LLM_REQUEST_MODEL \in DOMAIN span.attrs
              /\ span.attrs[LLM_REQUEST_MODEL] = PyStr(instance.model)
        /\ (Succeeded /\ recording /\ Truthy(outcome.resp)) =>
              /\ ~Falsy(outcome.resp.model) =>
                    /\ LLM_RESPONSE_MODEL \in DOMAIN span.attrs
                    /\ span.attrs[LLM_RESPONSE_MODEL] = outcome.resp.model
              /\ outcome.resp.usage.kind = "usage" =>
                    LLM_USAGE_TOTAL_TOKENS \in DOMAIN span.attrs

\* C23 witness: with the flag off a _wrap call with a prompt and a response
\* with content and usage ended with parameters, model and usage on the span
C23_Witness ==
    /\ Succeeded
    /\ fn = "_wrap"
    /\ recording
    /\ ~sendPrompts
    /\ kwargs = CompletionRequest
    /\ outcome.resp = MessageResponse
    /\ span.attrs[LLM_REQUEST_MAX_TOKENS] = PyInt(2048)
    /\ LLM_USAGE_TOTAL_TOKENS \in DOMAIN span.attrs
    /\ DOMAIN span.attrs \cap ContentKeys = {}

\* the messages of the running call's request up to message i can be dumped
Dumpable(i) ==
    \A j \in 1..i : ~_dump_content(kwargs.messages.items[j].content).raised

\* C24: _dump_content leaves a string content unchanged and turns a sequence
\* of parts into the JSON array of the parts in their order, a text part as
\* {type, text}, an image part as {type, source: {type, media_type, data}}
\* with data the string form of the data reference: the prompt attribute the
\* Anthropic wrappers write is always a string, never bytes.
C24_DumpContent ==
    (/\ span.started = 1
     /\ fn \in Anthropic
     /\ PastRequest
     /\ recording
     /\ sendPrompts
     /\ kwargs.prompt.kind = "none"
     /\ kwargs.messages.kind = "list")
        => /\ \A i \in 1..Len(kwargs.messages.items) :
                 Dumpable(i) =>
                    /\ PromptKey(i - 1) \in DOMAIN span.attrs
                    /\ span.attrs[PromptKey(i - 1)].kind = "str"
                    /\ kwargs.messages.items[i].content.kind = "str" =>
                          span.attrs[PromptKey(i - 1)].s
                              = kwargs.messages.items[i].content.s
           /\ kwargs = MessagesRequest =>
                 span.attrs[PromptKey(1)].s =
                    "[{\"type\": \"text\", \"text\": \"What is this\"}, {\"type\": \"image\", \"source\": {\"type\": \"base64\", \"media_type\": \"image/jpeg\", \"data\": \"QUJD\"}}]"
           /\ kwargs = BytesImageRequest =>
                 span.attrs[PromptKey(0)].s =
                    "[{\"type\": \"image\", \"source\": {\"type\": \"base64\", \"media_type\": \"image/png\", \"data\": \"b'iVBO'\"}}, {\"type\": \"text\", \"text\": \"Describe\"}]"

\* C24 witness: a request whose image data is bytes went through _wrap and the
\* prompt attribute was written
C24_Witness ==
    /\ pc = "invoke"
    /\ fn = "_wrap"
    /\ recording
    /\ sendPrompts
    /\ kwargs = BytesImageRequest
    /\ PromptKey(0) \in DOMAIN span.attrs

\* C25: when a non-suppressed non-streaming _wrap / _awrap call whose wrapped
\* method returned has ended its span, the status of the recording span is OK
\* and the span end is the last telemetry operation of the call.
C25_StatusOkAtEnd ==
    (Succeeded /\ recording) =>
        /\ span.status = "OK"
        /\ span.ended = 1
        /\ log # << >>
        /\ log[Len(log)] = "end_span"
        /\ Count("end_span") = 1

\* the positions of operation op in the call's telemetry log
Positions(op) == {i \in 1..Len(log) : log[i] = op}

\* the operations of _wrap that follow the finally block
AfterFinally ==
    {TOKENS, CHOICES, "handoff", "set_response", "warning_response", "set_status",
     "end_span", "stream_end", "stream_close"}

\* C26: in a non-suppressed _wrap call with metrics enabled the duration point
\* is recorded right after the wrapped method returned or raised, once, and
\* before every response attribute, token or choice point, stream hand-off and
\* span end of the call; no stream item is consumed before it.
C26_DurationFirst ==
    (Instrumented("_wrap") /\ metricsEnabled) =>
        /\ pc = "finally" =>
              /\ log[Len(log)] = "invoke"
              /\ points = << >>
        /\ pc # "finally" =>
              /\ Count(DURATION) = 1
              /\ \A i \in Positions(DURATION) :
                    /\ i > 1
                    /\ log[i - 1] = "invoke"
                    /\ \A op \in AfterFinally : \A j \in Positions(op) : i < j
              /\ points[1].inst = DURATION
        /\ stream.delivered # << >> => Len(PointsOf(DURATION)) = 1

\* C26 witness: the first item of a stream is consumed after the duration
\* point and the hand-off, the span still open
C26_Witness ==
    /\ pc = "streaming"
    /\ Instrumented("_wrap")
    /\ Len(stream.delivered) = 1
    /\ log = <<"start_span", "set_input", "invoke", DURATION, "handoff">>
    /\ span.ended = 0

\* C27: a successful non-streaming _wrap call with metrics enabled whose span
\* is not recording records its duration point and nothing else, ends the
\* span exactly once, sets no attribute and no status on the span.
C27_NotRecording ==
    (Succeeded /\ fn = "_wrap" /\ ~recording) =>
        /\ Insts(points) = <<DURATION>>
        /\ span.started = 1
        /\ span.ended = 1
        /\ span.attrs = NoAttrs
        /\ span.status = "UNSET"
        /\ Count("set_status") = 0

\* C27 witness: a call with a prompt and a response with content and usage
\* went through _wrap with a span that is not recording
C27_Witness ==
    /\ Succeeded
    /\ fn = "_wrap"
    /\ ~recording
    /\ kwargs = MessagesRequest
    /\ outcome.resp = MessageResponse
    /\ Len(points) = 1
    /\ span.ended = 1

====
